---- MODULE Spec2Model ----
(***************************************************************************)
(* Progressive directory-scan channel of Image-MetaHub, as exercised by    *)
(* jules-scratch/verification/verify_progressive_loading.py: the page's    *)
(* window.electronAPI (streamDirectoryFiles, onDirectoryScanBatch,         *)
(* onDirectoryScanComplete, onDirectoryScanError, updateAllowedPaths), the *)
(* browser's timer queue and event-listener lists, and the front-end       *)
(* consumer that accumulates the batches; and the runs of the two hotkey   *)
(* scripts, verify_hotkeys.py and verify_hotkeys_fix.py, over the          *)
(* application's overlays.                                                 *)
(***************************************************************************)
EXTENDS Integers, Sequences, FiniteSets, TLC

\* ------------------------------------------------------------ bounds
\* calls of streamDirectoryFiles, of the on... subscribe functions and of
\* updateAllowedPaths in one behaviour, after the application's own subscriptions
MaxCalls == 3
\* events the host delivers to the consumer in one behaviour of ConsumerSpec
MaxEvents == 3
\* the clock advances in steps of Quantum milliseconds
Quantum == 100

\* ------------------------------------------------- program constants
\* Array.from({ length: 50 }, ...)
BatchLen == 50
\* file${i + 1}.png and file${i + 51}.png
FirstName1 == 1
FirstName2 == 51
\* the three setTimeout delays
BatchDelay1 == 100
BatchDelay2 == 300
CompleteDelay == 500
\* detail: { directoryId, total: 100 }
CompleteTotal == 100

BatchEvent == "directory-scan-batch"
CompleteEvent == "directory-scan-complete"
ErrorEvent == "directory-scan-error"
EventTypes == {BatchEvent, CompleteEvent, ErrorEvent}

\* ------------------------------------------------------------ inputs
DirectoryIds == {"d1", "d2"}
\* showDirectoryDialog resolves path: '/__tests__/fixtures/images', the path the
\* application scans
DialogPath == "/__tests__/fixtures/images"
\* the paths an updateAllowedPaths call may name
PolicyPaths == {DialogPath, "/private"}
\* callback identities passed to the subscribe functions: "consumer" is the
\* application's accumulator, subscribed as the application mounts and possibly
\* again later; "probe" is any other callback
Callbacks == {"consumer", "probe"}
\* the reasons a scan-error may carry
Reasons == {"AccessDenied", "NotFound", "IOFailure"}

VARIABLES
    timers,       \* pending setTimeout entries: [wait, seq, ev], wait = ms until due
    scans,        \* the calls of streamDirectoryFiles so far: [directoryId, path, policy],
                  \* policy = the allowed paths as the call was made
    listeners,    \* window's listener list per event type (handles, in registration order)
    subs,         \* the calls of the subscribe functions so far; a handle is its index:
                  \* [type, callback, returnsUnsub, unsubCalls]
    dispatched,   \* the events given to window.dispatchEvent so far
    received,     \* per handle: the indexes in dispatched its callback was invoked with
    allowedPaths, \* the argument of the latest updateAllowedPaths call
    policyCalls,  \* the number of updateAllowedPaths calls so far
    cstate,       \* consumer: state per directoryId
    acc,          \* consumer: accumulated files per directoryId
    run           \* the run of a hotkey verification script: its position, the
                  \* application it drives, and what it has done to the browser

vars == <<timers, scans, listeners, subs, dispatched, received, allowedPaths,
          policyCalls, cstate, acc, run>>

\* the page of verify_progressive_loading.py, which the hotkey scripts leave alone
pageVars == <<timers, scans, listeners, subs, dispatched, received, allowedPaths,
              policyCalls, cstate, acc>>

\* ----------------------------------------------------------- helpers
RECURSIVE SumSeq(_)
SumSeq(s) == IF s = <<>> THEN 0 ELSE Head(s) + SumSeq(Tail(s))

\* Array.from({ length: n }, (_, i) => `file${i + first}.png`): the names, as numbers
FileNames(first, n) == [i \in 1..n |-> first + i - 1]

RECURSIVE Flatten(_)
Flatten(chunks) ==
    IF chunks = <<>> THEN <<>>
    ELSE FileNames(Head(chunks).first, Head(chunks).count) \o Flatten(Tail(chunks))

\* ---------------------------------------------------------- consumer
\* The front-end accumulator, per directoryId: Idle -> Scanning -> {Loaded | Errored}.
\* A consumer value is [state |-> ..., acc |-> ...], both functions of the directoryId;
\* acc[d] holds the files arrays appended so far, each as its first name and length,
\* and Entries is the accumulated sequence itself.
Entries(chunks) == Flatten(chunks)

Count(chunks) == SumSeq([i \in 1..Len(chunks) |-> chunks[i].count])

ConsumerRequest(con, d) ==
    IF con.state[d] = "Idle"
    THEN [con EXCEPT !.state[d] = "Scanning"]
    ELSE con

\* ConsumerOnBatch without the test of the state: a batch is appended whenever it
\* arrives
ConsumerOnBatch_AnyState(con, ev) ==
    [con EXCEPT !.acc[ev.directoryId] =
                    Append(@, [first |-> ev.first, count |-> ev.count])]

ConsumerOnBatch(con, ev) ==
    IF con.state[ev.directoryId] = "Scanning"
    THEN [con EXCEPT !.acc[ev.directoryId] =
                         Append(@, [first |-> ev.first, count |-> ev.count])]
    ELSE con

\* ConsumerOnComplete taking a directory for loaded only once it holds entries
ConsumerOnComplete_NeedsEntries(con, ev) ==
    IF con.state[ev.directoryId] = "Scanning" /\ con.acc[ev.directoryId] # <<>>
    THEN [con EXCEPT !.state[ev.directoryId] = "Loaded"]
    ELSE con

ConsumerOnComplete(con, ev) ==
    IF con.state[ev.directoryId] = "Scanning"
    THEN [con EXCEPT !.state[ev.directoryId] = "Loaded"]
    ELSE con

\* ConsumerOnError under the other policy: the partial results are discarded
ConsumerOnError_Discards(con, ev) ==
    IF con.state[ev.directoryId] = "Scanning"
    THEN [con EXCEPT !.state[ev.directoryId] = "Errored", !.acc[ev.directoryId] = <<>>]
    ELSE con

ConsumerOnError(con, ev) ==
    IF con.state[ev.directoryId] = "Scanning"
    THEN [con EXCEPT !.state[ev.directoryId] = "Errored"]
    ELSE con

ConsumerHandle(con, ev) ==
    CASE ev.type = BatchEvent -> ConsumerOnBatch(con, ev)
      [] ev.type = CompleteEvent -> ConsumerOnComplete(con, ev)
      [] ev.type = ErrorEvent -> ConsumerOnError(con, ev)

\* ------------------------------------------------- the page's window
\* AddEventListener with the event name of the other subscribe function pasted in
AddEventListener_PastedType(ls, type, h) == [ls EXCEPT ![CompleteEvent] = Append(@, h)]

\* window.addEventListener(type, handler): handler is a fresh closure, so it is
\* never already in the list
AddEventListener(ls, type, h) == [ls EXCEPT ![type] = Append(@, h)]

\* RemoveEventListener given a function that is not the one registered (a new
\* closure): nothing is removed
RemoveEventListener_OtherClosure(ls, type, h) == ls

\* RemoveEventListener as list.splice(list.indexOf(h), 1): an absent handler has
\* index -1, and the last listener is removed in its place
RemoveEventListener_Splice(ls, type, h) ==
    IF \E i \in 1..Len(ls[type]) : ls[type][i] = h
    THEN [ls EXCEPT ![type] = SelectSeq(@, LAMBDA x : x # h)]
    ELSE [ls EXCEPT ![type] = SubSeq(@, 1, Len(@) - 1)]

\* RemoveEventListener over handlers that are the callbacks themselves: every
\* registration of the same callback is the same function, and goes with it
RemoveEventListener_ByCallback(ls, type, h) ==
    [ls EXCEPT ![type] = SelectSeq(@, LAMBDA x : subs[x].callback # subs[h].callback)]

\* window.removeEventListener(type, handler): removes that handler if it is there
RemoveEventListener(ls, type, h) ==
    [ls EXCEPT ![type] = SelectSeq(@, LAMBDA x : x # h)]

\* handler = (event) => callback(event.detail), for each listener of the type in
\* registration order; the application's callback runs the consumer
RECURSIVE InvokeListeners(_, _, _)
InvokeListeners(con, hs, ev) ==
    IF hs = <<>> THEN con
    ELSE InvokeListeners(
             IF subs[Head(hs)].callback = "consumer" THEN ConsumerHandle(con, ev) ELSE con,
             Tail(hs), ev)

InListeners(ls, type, h) == \E i \in 1..Len(ls[type]) : ls[type][i] = h

\* window.dispatchEvent(new CustomEvent(ev.type, { detail })): synchronous delivery
\* to the listeners registered for ev.type at this moment
DispatchEvent(ev) ==
    LET con == InvokeListeners([state |-> cstate, acc |-> acc], listeners[ev.type], ev)
        idx == Len(dispatched) + 1
    IN  /\ dispatched' = Append(dispatched, ev)
        /\ received' = [h \in DOMAIN received |->
                          IF InListeners(listeners, ev.type, h)
                          THEN Append(received[h], idx) ELSE received[h]]
        /\ cstate' = con.state
        /\ acc' = con.acc

\* ------------------------------------------------------- electronAPI
Subscription(type, cb, returnsUnsub) ==
    [type |-> type, callback |-> cb, returnsUnsub |-> returnsUnsub, unsubCalls |-> 0]

\* the subscriptions the application makes as it mounts, before any scan: handles 1
\* (batches) and 2 (completion)
MountedSubs ==
    << Subscription(BatchEvent, "consumer", TRUE),
       Subscription(CompleteEvent, "consumer", TRUE) >>

\* the calls of the page's functions so far, after the application's own subscriptions
Calls == Len(scans) + (Len(subs) - Len(MountedSubs)) + policyCalls

MountedListeners ==
    [t \in EventTypes |->
        CASE t = BatchEvent -> <<1>>
          [] t = CompleteEvent -> <<2>>
          [] t = ErrorEvent -> <<>>]

\* setTimeout(fn, delay): a timer due in delay ms; seq is the order of creation
Timer(delay, k, ev) == [wait |-> delay, seq |-> Len(scans) * 3 + k, ev |-> ev]

\* BatchDetail with the directoryId taken from elsewhere than the call's argument
BatchDetail_FixedId(d, first, s) ==
    [type |-> BatchEvent, directoryId |-> "d1", first |-> first, count |-> BatchLen,
     scan |-> s]

\* detail of a batch event: the files array is kept as its first name and length
\* (lastModified, Date.now() at the call, is read by nothing here); scan tells the
\* call whose closure dispatches the event
BatchDetail(d, first, s) ==
    [type |-> BatchEvent, directoryId |-> d, first |-> first, count |-> BatchLen,
     scan |-> s]

CompleteDetail(d, s) ==
    [type |-> CompleteEvent, directoryId |-> d, total |-> CompleteTotal, scan |-> s]

\* ScheduledTimers without the third setTimeout: the completion is never sent
ScheduledTimers_NoComplete(d, s) ==
    { Timer(BatchDelay1, 1, BatchDetail(d, FirstName1, s)),
      Timer(BatchDelay2, 2, BatchDetail(d, FirstName2, s)) }

ScheduledTimers(d, s) ==
    { Timer(BatchDelay1, 1, BatchDetail(d, FirstName1, s)),
      Timer(BatchDelay2, 2, BatchDetail(d, FirstName2, s)),
      Timer(CompleteDelay, 3, CompleteDetail(d, s)) }

\* StreamDirectoryFiles with the first batch dispatched in the call itself, not from
\* a timer: the subscribers see it before the call returns
StreamDirectoryFiles_SyncBatch(d, path) ==
    LET ev == BatchDetail(d, FirstName1, Len(scans) + 1)
        req == ConsumerRequest([state |-> cstate, acc |-> acc], d)
        con == InvokeListeners(req, listeners[ev.type], ev)
    IN  /\ Calls < MaxCalls
        /\ timers' = timers \cup
                        (ScheduledTimers(d, Len(scans) + 1) \ {Timer(BatchDelay1, 1, ev)})
        /\ scans' = Append(scans, [directoryId |-> d, path |-> path,
                                   policy |-> allowedPaths])
        /\ dispatched' = Append(dispatched, ev)
        /\ received' = [h \in DOMAIN received |->
                          IF InListeners(listeners, ev.type, h)
                          THEN Append(received[h], Len(dispatched) + 1)
                          ELSE received[h]]
        /\ cstate' = con.state
        /\ acc' = con.acc
        /\ UNCHANGED <<run, listeners, subs, allowedPaths, policyCalls>>

\* streamDirectoryFiles: async ({ directoryId }) => ...: schedules two batches and the
\* completion and resolves { success: true }; the path argument is not read.  The
\* application enters Scanning for the id as it submits the request.
StreamDirectoryFiles(d, path) ==
    /\ Calls < MaxCalls
    /\ timers' = timers \cup ScheduledTimers(d, Len(scans) + 1)
    /\ scans' = Append(scans, [directoryId |-> d, path |-> path, policy |-> allowedPaths])
    /\ LET con == ConsumerRequest([state |-> cstate, acc |-> acc], d)
       IN  cstate' = con.state /\ acc' = con.acc
    /\ UNCHANGED <<run, listeners, subs, dispatched, received, allowedPaths, policyCalls>>

\* the events of a type dispatched so far, as indexes in dispatched
PastEvents(type) ==
    SelectSeq([i \in 1..Len(dispatched) |-> i], LAMBDA i : dispatched[i].type = type)

\* Subscribe over a dispatcher that keeps a replay buffer: the new handler is invoked
\* with the events of its type that were dispatched before
Subscribe_Replay(type, cb) ==
    /\ Calls < MaxCalls
    /\ subs' = Append(subs, Subscription(type, cb, TRUE))
    /\ listeners' = AddEventListener(listeners, type, Len(subs) + 1)
    /\ received' = Append(received, PastEvents(type))
    /\ UNCHANGED <<run, timers, scans, dispatched, allowedPaths, policyCalls, cstate, acc>>

\* onDirectoryScanBatch / onDirectoryScanComplete: (callback) => { addEventListener;
\* return () => removeEventListener }
Subscribe(type, cb) ==
    /\ Calls < MaxCalls
    /\ subs' = Append(subs, Subscription(type, cb, TRUE))
    /\ listeners' = AddEventListener(listeners, type, Len(subs) + 1)
    /\ received' = Append(received, <<>>)
    /\ UNCHANGED <<run, timers, scans, dispatched, allowedPaths, policyCalls, cstate, acc>>

OnDirectoryScanBatch(cb) == Subscribe(BatchEvent, cb)

OnDirectoryScanComplete(cb) == Subscribe(CompleteEvent, cb)

\* onDirectoryScanError: (callback) => { /* No-op for this test */ }: registers
\* nothing and returns undefined
OnDirectoryScanError(cb) ==
    /\ Calls < MaxCalls
    /\ subs' = Append(subs, Subscription(ErrorEvent, cb, FALSE))
    /\ received' = Append(received, <<>>)
    /\ UNCHANGED <<run, timers, scans, listeners, dispatched, allowedPaths, policyCalls, cstate, acc>>

\* the closure returned by onDirectoryScanBatch / onDirectoryScanComplete; unsubCalls
\* tells no call, one call and more than one call apart.  The application keeps the
\* subscriptions it made as it mounted while the page lives.
Unsubscribe(h) ==
    /\ h \in DOMAIN subs
    /\ subs[h].returnsUnsub
    /\ h > Len(MountedSubs)
    /\ listeners' = RemoveEventListener(listeners, subs[h].type, h)
    /\ subs' = [subs EXCEPT ![h].unsubCalls = IF @ < 2 THEN @ + 1 ELSE @]
    /\ UNCHANGED <<run, timers, scans, dispatched, received, allowedPaths, policyCalls, cstate, acc>>

\* updateAllowedPaths: () => Promise.resolve(): the page keeps nothing of the argument;
\* allowedPaths records what the caller last asked for
UpdateAllowedPaths(ps) ==
    /\ Calls < MaxCalls
    /\ allowedPaths' = ps
    /\ policyCalls' = policyCalls + 1
    /\ UNCHANGED <<run, timers, scans, listeners, subs, dispatched, received, cstate, acc>>

\* ------------------------------------------------------- timer queue
\* timers run in the order of their due times, and in the order of creation when
\* these are equal
Earlier(t, u) == t.wait < u.wait \/ (t.wait = u.wait /\ t.seq < u.seq)

\* the timer that runs next: due, and before every other pending timer
NextTimer(t) == t.wait <= 0 /\ \A u \in timers \ {t} : Earlier(t, u)

FireTimer ==
    \E t \in timers :
        /\ NextTimer(t)
        /\ timers' = timers \ {t}
        /\ DispatchEvent(t.ev)
        /\ UNCHANGED <<run, scans, listeners, subs, allowedPaths, policyCalls>>

\* Quantum ms pass.  The event loop is idle between the steps of this model, so a
\* timer runs when it is due: the clock does not pass a due timer.  With no timer
\* pending the passing of time changes nothing.
Tick ==
    /\ timers # {}
    /\ \A t \in timers : t.wait > 0
    /\ timers' = { [t EXCEPT !.wait = @ - Quantum] : t \in timers }
    /\ UNCHANGED <<run, scans, listeners, subs, dispatched, received, allowedPaths, policyCalls, cstate, acc>>

\* ------------------------------------------------- hotkey scripts
\* verify_hotkeys.py (run_verification) and verify_hotkeys_fix.py (run): launch,
\* new_context and new_page, then the steps of the try block, then the except
\* handler when a step raised, then browser.close() in the finally block.
Scripts == {"verify_hotkeys", "verify_hotkeys_fix"}

\* one statement of a try block; visible is read by expect steps only
Call(op, arg) == [op |-> op, arg |-> arg, visible |-> TRUE]

Expect(target, visible) == [op |-> "expect", arg |-> target, visible |-> visible]

\* the try block of run_verification
HotkeysSteps ==
    << Call("goto", "http://localhost:5173"),
       Call("evaluate", "localStorage.clear"),
       Call("reload", ""),
       Expect("Select Image Folder", TRUE),
       Call("press", "F1"),
       Expect("Keyboard Shortcuts", TRUE),
       Call("screenshot", "hotkey_help_modal.png"),
       Call("print", "Hotkey Help modal opened successfully."),
       Call("press", "Escape"),
       Expect("Keyboard Shortcuts", FALSE),
       Call("print", "Hotkey Help modal closed successfully."),
       Call("press", "Control+K"),
       Expect("Type a command or search...", TRUE),
       Call("screenshot", "command_palette.png"),
       Call("print", "Command Palette opened successfully."),
       Call("press", "Escape"),
       Expect("Type a command or search...", FALSE),
       Call("print", "Command Palette closed successfully.") >>

\* the try block of run
HotkeysFixSteps ==
    << Call("goto", "http://localhost:5173"),
       Expect("header", TRUE),
       Call("press", "F1"),
       Expect("hotkey-help-modal", TRUE),
       Call("screenshot", "hotkey-help-visible.png") >>

Steps(script) ==
    IF script = "verify_hotkeys" THEN HotkeysSteps ELSE HotkeysFixSteps

\* the path of the screenshot the except handler takes
ErrorShot(script) ==
    IF script = "verify_hotkeys" THEN "error.png" ELSE "error-hotkey-fix.png"

\* The application the scripts drive, as far as they look at it: whether the page
\* is loaded, whether a folder is loaded, and the overlay that is open.  A first
\* launch opens the changelog modal (verify_progressive_loading.py closes it with
\* "Got it!").
Overlays == {"none", "changelog", "help", "palette"}

OverlayOf(target) ==
    CASE target \in {"Keyboard Shortcuts", "hotkey-help-modal"} -> "help"
      [] target = "Type a command or search..." -> "palette"
      [] OTHER -> "none"

\* is the element a locator names visible?
Visible(app, target) ==
    CASE target = "Select Image Folder" -> app.loaded /\ ~app.folder
      [] target = "header" -> app.loaded /\ app.folder
      [] OTHER -> app.loaded /\ app.overlay = OverlayOf(target)

\* the overlay a hotkey opens
OpenedBy(key) ==
    CASE key = "F1" -> "help"
      [] key = "Control+K" -> "palette"
      [] OTHER -> "none"

\* KeyPress with Escape left to the focused element, so that it closes nothing
KeyPress_EscapeIgnored(app, key) ==
    IF ~app.loaded \/ key = "Escape" THEN {app}
    ELSE IF app.overlay = "none" THEN {[app EXCEPT !.overlay = OpenedBy(key)]}
    ELSE {app, [app EXCEPT !.overlay = OpenedBy(key)]}

\* the application's handling of a key, as the set of states it may end in: Escape
\* closes the open overlay; F1 and Control+K open their overlay when none is open,
\* and with another overlay open they may do so or be ignored
KeyPress(app, key) ==
    IF ~app.loaded THEN {app}
    ELSE IF key = "Escape" THEN {[app EXCEPT !.overlay = "none"]}
    ELSE IF app.overlay = "none" THEN {[app EXCEPT !.overlay = OpenedBy(key)]}
    ELSE {app, [app EXCEPT !.overlay = OpenedBy(key)]}

\* the page after a navigation: loaded, with the changelog modal when the
\* application takes this for its first launch
Navigated(app) ==
    { [app EXCEPT !.loaded = TRUE, !.overlay = o] : o \in {"none", "changelog"} }

\* the application after a step of a try block that did not raise
AfterCall(app, step) ==
    CASE step.op \in {"goto", "reload"} -> Navigated(app)
      [] step.op = "evaluate" -> {[app EXCEPT !.folder = FALSE]}
      [] step.op = "press" -> KeyPress(app, step.arg)
      [] OTHER -> {app}

\* a run before it starts
IdleRun ==
    [script |-> "none", pc |-> "idle", step |-> 0,
     app |-> [loaded |-> FALSE, folder |-> FALSE, overlay |-> "none"],
     open |-> FALSE, closes |-> 0, shots |-> {}, failedAt |-> 0,
     exc |-> "none", pending |-> FALSE]

\* with sync_playwright() as playwright: run_verification(playwright) / run(playwright);
\* folder tells whether the application comes up with a folder loaded
RunScript(s, folder) ==
    /\ run.pc = "idle"
    /\ run' = [run EXCEPT !.script = s, !.pc = "launch", !.app.folder = folder]
    /\ UNCHANGED pageVars

\* the statement after launch, new_context and new_page
AfterSetup(pc) ==
    CASE pc = "launch" -> "new_context"
      [] pc = "new_context" -> "new_page"
      [] pc = "new_page" -> "try"

\* browser = playwright.chromium.launch(headless=True); context = browser.new_context();
\* page = context.new_page(): before the try block
SetupCall ==
    /\ run.pc \in {"launch", "new_context", "new_page"}
    /\ run' = [run EXCEPT !.pc = AfterSetup(run.pc), !.open = TRUE,
                          !.step = IF run.pc = "new_page" THEN 1 ELSE 0]
    /\ UNCHANGED pageVars

\* one of the three raises: nothing catches it, and nothing closes a browser that
\* was launched
SetupRaises ==
    /\ run.pc \in {"launch", "new_context", "new_page"}
    /\ run' = [run EXCEPT !.pc = "raised", !.exc = "error"]
    /\ UNCHANGED pageVars

InTry == run.pc = "try" /\ run.step \in 1..Len(Steps(run.script))

CurrentStep == Steps(run.script)[run.step]

\* does the expectation of an expect step hold of the application?
Holds(app, step) == Visible(app, step.arg) <=> step.visible

\* the next statement of the try block runs and does not raise
TryStep ==
    /\ InTry
    /\ CurrentStep.op = "expect" => Holds(run.app, CurrentStep)
    /\ \E a \in AfterCall(run.app, CurrentStep) :
           run' = [run EXCEPT !.step = @ + 1, !.app = a,
                              !.shots = IF CurrentStep.op = "screenshot"
                                        THEN @ \cup {CurrentStep.arg} ELSE @]
    /\ UNCHANGED pageVars

\* expect(...).to_be_visible() / .not_to_be_visible() raises AssertionError
ExpectFails ==
    /\ InTry
    /\ CurrentStep.op = "expect"
    /\ ~Holds(run.app, CurrentStep)
    /\ run' = [run EXCEPT !.pc = "except", !.failedAt = run.step, !.exc = "assertion"]
    /\ UNCHANGED pageVars

\* a call of the browser raises playwright's Error or TimeoutError (the server is
\* not up, the page crashed, the browser went away)
TryStepRaises ==
    /\ InTry
    /\ CurrentStep.op # "print"
    /\ run' = [run EXCEPT !.pc = "except", !.failedAt = run.step, !.exc = "error"]
    /\ UNCHANGED pageVars

\* the try block ran to its end
TryDone ==
    /\ run.pc = "try"
    /\ run.step = Len(Steps(run.script)) + 1
    /\ run' = [run EXCEPT !.pc = "finally"]
    /\ UNCHANGED pageVars

\* except Exception as e: print(f"An error occurred: {e}")
ExceptPrint ==
    /\ run.pc = "except"
    /\ run' = [run EXCEPT !.pc = "error_screenshot"]
    /\ UNCHANGED pageVars

\* page.screenshot(path=".../error.png") in the handler: the exception is handled
ErrorScreenshot ==
    /\ run.pc = "error_screenshot"
    /\ run' = [run EXCEPT !.pc = "finally", !.exc = "none",
                          !.shots = @ \cup {ErrorShot(run.script)}]
    /\ UNCHANGED pageVars

\* page.screenshot in the handler raises in its turn: the finally block runs with
\* that exception pending
ErrorScreenshotRaises ==
    /\ run.pc = "error_screenshot"
    /\ run' = [run EXCEPT !.pc = "finally", !.exc = "error", !.pending = TRUE]
    /\ UNCHANGED pageVars

\* finally: browser.close(); then the function returns, or the pending exception
\* leaves it
BrowserClose ==
    /\ run.pc = "finally"
    /\ run' = [run EXCEPT !.pc = IF run.pending THEN "raised" ELSE "returned",
                          !.open = FALSE, !.closes = @ + 1]
    /\ UNCHANGED pageVars

\* ----------------------------------------------------- specification
Init ==
    /\ timers = {}
    /\ scans = <<>>
    /\ listeners = MountedListeners
    /\ subs = MountedSubs
    /\ dispatched = <<>>
    /\ received = [h \in DOMAIN MountedSubs |-> <<>>]
    /\ allowedPaths = {}
    /\ policyCalls = 0
    /\ cstate = [d \in DirectoryIds |-> "Idle"]
    /\ acc = [d \in DirectoryIds |-> <<>>]
    /\ run = IdleRun

\* The page with its subscribers; the allowed-paths policy stays as it starts.
Next ==
    \/ \E d \in DirectoryIds : StreamDirectoryFiles(d, DialogPath)
    \/ \E cb \in Callbacks : OnDirectoryScanBatch(cb)
    \/ \E cb \in Callbacks : OnDirectoryScanComplete(cb)
    \/ \E cb \in Callbacks : OnDirectoryScanError(cb)
    \/ \E h \in DOMAIN subs : Unsubscribe(h)
    \/ FireTimer
    \/ Tick

Spec == Init /\ [][Next]_vars

\* The page's scans alone, with the subscriptions the application made as it mounted.
ScanNext ==
    \/ \E d \in DirectoryIds : StreamDirectoryFiles(d, DialogPath)
    \/ FireTimer
    \/ Tick

\* The scans while the page's event loop keeps running: time passes while timers
\* are pending, and a due timer's callback runs.
FairSpec == Init /\ [][ScanNext]_vars /\ WF_vars(Tick) /\ WF_vars(FireTimer)

\* The page's scans under a changing allowed-paths policy.
PolicyNext ==
    \/ \E d \in DirectoryIds : StreamDirectoryFiles(d, DialogPath)
    \/ \E ps \in SUBSET PolicyPaths : UpdateAllowedPaths(ps)
    \/ FireTimer
    \/ Tick

PolicySpec == Init /\ [][PolicyNext]_vars

\* The consumer alone, given any events by the host: the two batches and the
\* completion the page sends, a completion of an empty directory, and scan errors.
ErrorDetail(d, r) == [type |-> ErrorEvent, directoryId |-> d, error |-> r]

HostEvents ==
    { [type |-> BatchEvent, directoryId |-> d, first |-> f, count |-> BatchLen] :
          d \in DirectoryIds, f \in {FirstName1, FirstName2} }
    \cup { [type |-> CompleteEvent, directoryId |-> d, total |-> t] :
          d \in DirectoryIds, t \in {0, CompleteTotal} }
    \cup { ErrorDetail(d, r) : d \in DirectoryIds, r \in Reasons }

\* the application submits a scan request for d
ConsumerSubmit(d) ==
    /\ LET con == ConsumerRequest([state |-> cstate, acc |-> acc], d)
       IN  cstate' = con.state /\ acc' = con.acc
    /\ UNCHANGED <<run, timers, scans, listeners, subs, dispatched, received, allowedPaths,
                   policyCalls>>

\* the consumer's callback is invoked with the detail of ev
ConsumerDeliver(ev) ==
    /\ Len(dispatched) < MaxEvents
    /\ dispatched' = Append(dispatched, ev)
    /\ LET con == ConsumerHandle([state |-> cstate, acc |-> acc], ev)
       IN  cstate' = con.state /\ acc' = con.acc
    /\ UNCHANGED <<run, timers, scans, listeners, subs, received, allowedPaths, policyCalls>>

ConsumerNext ==
    \/ \E d \in DirectoryIds : ConsumerSubmit(d)
    \/ \E ev \in HostEvents : ConsumerDeliver(ev)

ConsumerSpec == Init /\ [][ConsumerNext]_vars

\* A run of one of the hotkey scripts against the application.
ScriptNext ==
    \/ \E s \in Scripts, folder \in BOOLEAN : RunScript(s, folder)
    \/ SetupCall
    \/ SetupRaises
    \/ TryStep
    \/ ExpectFails
    \/ TryStepRaises
    \/ TryDone
    \/ ExceptPrint
    \/ ErrorScreenshot
    \/ ErrorScreenshotRaises
    \/ BrowserClose

ScriptSpec == Init /\ [][ScriptNext]_vars

\* ------------------------------------------------------------ claims
Indices == 1..Len(dispatched)

IsBatch(ev) == ev.type = BatchEvent

IsTerminal(ev) == ev.type \in {CompleteEvent, ErrorEvent}

\* the entries of the batches for directoryId d among the first n dispatched events
RECURSIVE BatchEntriesUpTo(_, _)
BatchEntriesUpTo(d, n) ==
    IF n = 0 THEN 0
    ELSE BatchEntriesUpTo(d, n - 1)
         + (IF IsBatch(dispatched[n]) /\ dispatched[n].directoryId = d
            THEN dispatched[n].count ELSE 0)

\* C1: whenever a completion with total = T is delivered for a directoryId, the entry
\* counts of all batches delivered for that directoryId before it sum to T.
C1_TotalIsBatchSum ==
    \A i \in Indices :
        dispatched[i].type = CompleteEvent =>
            BatchEntriesUpTo(dispatched[i].directoryId, i - 1) = dispatched[i].total

\* C2: the terminal event of a directoryId is the last event delivered for that id:
\* no batch, completion or error for the id follows it.
C2_TerminalIsLast ==
    \A i, j \in Indices :
        (i < j /\ IsTerminal(dispatched[i])) =>
            dispatched[j].directoryId # dispatched[i].directoryId

\* what the application's callback, registered for the whole run (handles 1 and 2),
\* has observed for directoryId d, in the order of observation
ObservedByConsumer(d) ==
    SelectSeq([i \in Indices |-> i],
              LAMBDA i : /\ dispatched[i].directoryId = d
                         /\ \E k \in 1..Len(received[1] \o received[2]) :
                                (received[1] \o received[2])[k] = i)

\* C6: a subscriber registered for the whole scan observes, for one directoryId, the
\* batches in the order the scanner emitted them (file1.. before file51..) and then
\* exactly one terminal event: a terminal event is the last thing observed.
C6_InOrderThenOneTerminal ==
    \A d \in DirectoryIds :
        LET obs == ObservedByConsumer(d)
        IN  \A k, l \in 1..Len(obs) :
                k < l =>
                    /\ ~IsTerminal(dispatched[obs[k]])
                    /\ (IsBatch(dispatched[obs[l]]) /\
                        dispatched[obs[k]].scan = dispatched[obs[l]].scan)
                           => dispatched[obs[k]].first < dispatched[obs[l]].first

\* the entries of the batches for d that were delivered to the application's callback
DeliveredEntries(d) ==
    SumSeq([h \in DOMAIN subs |->
               IF subs[h].callback = "consumer" /\ subs[h].type = BatchEvent
               THEN SumSeq([k \in 1..Len(received[h]) |->
                               IF dispatched[received[h][k]].directoryId = d
                               THEN dispatched[received[h][k]].count ELSE 0])
               ELSE 0])

\* C7: in every reachable state the consumer's accumulated entry count for a
\* directoryId is the sum of the sizes of the batches delivered to it so far for that
\* id (50 after the first batch, 100 after the second, still 100 after completion).
C7_CountIsDeliveredSum ==
    \A d \in DirectoryIds : Count(acc[d]) = DeliveredEntries(d)

\* C9: a scan requested on a path outside the allowed paths delivers no batch, and its
\* terminal event is a scan-error with reason AccessDenied.
C9_DisallowedPathIsDenied ==
    \A i \in Indices :
        LET ev == dispatched[i]
        IN  scans[ev.scan].path \notin scans[ev.scan].policy =>
                /\ ~IsBatch(ev)
                /\ ev.type = ErrorEvent
                /\ ev.error = "AccessDenied"

Registered(h) == InListeners(listeners, subs[h].type, h)

\* this step dispatches one event
DispatchStep == Len(dispatched') = Len(dispatched) + 1

\* in this step the callback of handle h is invoked once, with the event dispatched
InvokedNow(h) == received'[h] = Append(received[h], Len(dispatched'))

\* C3: once a handler's unsubscribe has been called the handler is invoked for no
\* event dispatched afterwards, while every handler that was subscribed and never
\* unsubscribed is invoked for each event of its type.
C3_UnsubscribedGetsNothing ==
    [][\A h \in DOMAIN subs :
          /\ subs[h].unsubCalls >= 1 => received'[h] = received[h]
          /\ ( /\ DispatchStep
               /\ subs[h].returnsUnsub
               /\ subs[h].unsubCalls = 0
               /\ dispatched'[Len(dispatched')].type = subs[h].type ) => InvokedNow(h)
      ]_vars

\* an unsubscribed handler that had received events misses a later event of its type,
\* which another handler of that type receives
C3_Witness ==
    \E h, g \in DOMAIN subs : \E i \in Indices :
        /\ h # g
        /\ subs[h].unsubCalls >= 1
        /\ subs[g].type = subs[h].type
        /\ dispatched[i].type = subs[h].type
        /\ received[h] # <<>>
        /\ i > received[h][Len(received[h])]
        /\ \E k \in 1..Len(received[g]) : received[g][k] = i

\* C4 as claimed: each of the three subscribe operations registers the handler and
\* returns an unsubscribe operation that removes that registration.
C4_AllThreeRegister ==
    \A h \in DOMAIN subs :
        /\ subs[h].returnsUnsub
        /\ Registered(h) <=> subs[h].unsubCalls = 0

\* C4 as amended: the batch and the completion subscribe operations register the
\* handler, so that events of that kind dispatched from then on reach it, and return
\* an unsubscribe operation that removes that registration; the error subscribe
\* operation registers nothing, returns no unsubscribe operation, and its callback
\* is never invoked.
C4_BatchAndCompleteRegister ==
    \A h \in DOMAIN subs :
        /\ subs[h].type \in {BatchEvent, CompleteEvent} =>
               /\ subs[h].returnsUnsub
               /\ Registered(h) <=> subs[h].unsubCalls = 0
               /\ (subs[h].unsubCalls = 0 /\ received[h] # <<>>) =>
                      \A i \in Indices :
                          (dispatched[i].type = subs[h].type /\ i >= received[h][1])
                              => \E k \in 1..Len(received[h]) : received[h][k] = i
        /\ subs[h].type = ErrorEvent =>
               /\ ~subs[h].returnsUnsub
               /\ ~Registered(h)
               /\ received[h] = <<>>

\* a batch subscription made after mounting has received a batch, a completion has
\* been dispatched, and an error subscription was asked for
C4_Witness ==
    \E h, g \in DOMAIN subs :
        /\ h > Len(MountedSubs)
        /\ subs[h].type = BatchEvent
        /\ received[h] # <<>>
        /\ subs[g].type = ErrorEvent
        /\ \E i \in Indices : dispatched[i].type = CompleteEvent

\* C5: a call of an unsubscribe operation removes its own handler and no other, and
\* a second or later call of it changes nothing in the listener lists.
C5_UnsubscribeIdempotent ==
    [][\A h \in DOMAIN subs :
          subs'[h].unsubCalls > subs[h].unsubCalls =>
              /\ ~InListeners(listeners', subs[h].type, h)
              /\ \A g \in DOMAIN subs :
                     g # h => (InListeners(listeners', subs[g].type, g) <=> Registered(g))
              /\ subs[h].unsubCalls >= 1 => listeners' = listeners
      ]_vars

\* an unsubscribe operation has been called twice while another handler of the same
\* type stays registered
C5_Witness ==
    \E h, g \in DOMAIN subs :
        /\ h # g
        /\ subs[h].unsubCalls = 2
        /\ subs[g].type = subs[h].type
        /\ Registered(g)

\* C8: with the consumer in Scanning for a directoryId and no batch accumulated, a
\* completion with total = 0 takes it to Loaded with an empty accumulated sequence.
C8_EmptyDirectoryLoads ==
    [][\A d \in DirectoryIds :
          ( /\ cstate[d] = "Scanning"
            /\ Entries(acc[d]) = <<>>
            /\ DispatchStep
            /\ dispatched'[Len(dispatched')] =
                   [type |-> CompleteEvent, directoryId |-> d, total |-> 0] )
          => (cstate'[d] = "Loaded" /\ Entries(acc'[d]) = <<>>)
      ]_vars

\* the only event delivered was the completion of an empty directory, and the
\* consumer is Loaded with nothing accumulated
C8_Witness ==
    \E d \in DirectoryIds :
        /\ dispatched = << [type |-> CompleteEvent, directoryId |-> d, total |-> 0] >>
        /\ cstate[d] = "Loaded"
        /\ Entries(acc[d]) = <<>>

\* C10: a handler is invoked only with the event being dispatched: a subscription
\* starts with nothing received, whatever was dispatched before it was made.
C10_NoReplay ==
    [][ /\ \A h \in DOMAIN subs' :
              h \notin DOMAIN subs => received'[h] = <<>>
        /\ \A h \in DOMAIN subs :
              received'[h] = received[h] \/ (DispatchStep /\ InvokedNow(h))
      ]_vars

\* a handler subscribed during a scan has received a later event of that scan and
\* not the earlier event of its type
C10_Witness ==
    \E h \in DOMAIN subs : \E i \in Indices :
        /\ h > Len(MountedSubs)
        /\ dispatched[i].type = subs[h].type
        /\ received[h] # <<>>
        /\ i < received[h][1]
        /\ dispatched[i].scan = dispatched[received[h][1]].scan

TerminalDelivered(s) ==
    \E i \in Indices :
        /\ IsTerminal(dispatched[i])
        /\ dispatched[i].scan = s
        /\ dispatched[i].directoryId = scans[s].directoryId

\* C12: every accepted scan request eventually delivers a terminal event (completion
\* or error) for its directoryId, given that the timer queue keeps running; no
\* accepted scan stays active forever.
C12_AcceptedScanTerminates ==
    \A s \in 1..MaxCalls : [](Len(scans) >= s => <>TerminalDelivered(s))

\* two scans were accepted and the terminal event of each has been delivered
C12_Witness ==
    /\ Len(scans) >= 2
    /\ TerminalDelivered(1)
    /\ TerminalDelivered(2)

\* the event dispatched in this step
DispatchedNow == dispatched'[Len(dispatched')]

\* C13: once the consumer's state for a directoryId is Loaded or Errored, and
\* likewise for a directoryId it never requested (Idle), a further batch, completion
\* or error event carrying that id leaves the consumer's state and its accumulated
\* entries unchanged.
C13_RetiredIdIgnoresEvents ==
    [][\A d \in DirectoryIds :
          ( /\ cstate[d] \in {"Idle", "Loaded", "Errored"}
            /\ DispatchStep
            /\ DispatchedNow.directoryId = d )
          => (cstate' = cstate /\ acc' = acc)
      ]_vars

\* a batch was delivered for an id after its completion, and an event for an id
\* that was never requested: both ids are as they were
C13_Witness ==
    \E d, e \in DirectoryIds : \E i, j, k \in Indices :
        /\ d # e
        /\ cstate[d] = "Loaded" /\ acc[d] = <<>>
        /\ cstate[e] = "Idle" /\ acc[e] = <<>>
        /\ i < j
        /\ dispatched[i].type = CompleteEvent /\ dispatched[i].directoryId = d
        /\ IsBatch(dispatched[j]) /\ dispatched[j].directoryId = d
        /\ dispatched[k].directoryId = e

ConsumerCalls(i) ==
    Cardinality({ h \in DOMAIN subs :
                    /\ subs[h].callback = "consumer"
                    /\ \E k \in 1..Len(received[h]) : received[h][k] = i })

\* the consumer after n invocations with ev
RECURSIVE Times(_, _, _)
Times(con, ev, n) == IF n = 0 THEN con ELSE Times(ConsumerHandle(con, ev), ev, n - 1)

Requested(d) == \E s \in 1..Len(scans) : scans[s].directoryId = d

\* the consumer had the scans of directoryId d run alone: of the first n events it
\* is given those the calls for d sent, as often as it was invoked with them
RECURSIVE AloneUpTo(_, _)
AloneUpTo(d, n) ==
    IF n = 0
    THEN [state |-> [e \in DirectoryIds |->
                        IF e = d /\ Requested(d) THEN "Scanning" ELSE "Idle"],
          acc |-> [e \in DirectoryIds |-> <<>>]]
    ELSE IF scans[dispatched[n].scan].directoryId = d
         THEN Times(AloneUpTo(d, n - 1), dispatched[n], ConsumerCalls(n))
         ELSE AloneUpTo(d, n - 1)

\* C15: scans with distinct directoryIds are independent under every interleaving of
\* their events: at every point the consumer's state and accumulated sequence for an
\* id are what they would be had the scans of that id run alone, and the scans of an
\* id add no entries to another id.
C15_DistinctIdsIndependent ==
    \A d \in DirectoryIds :
        LET alone == AloneUpTo(d, Len(dispatched))
        IN  /\ cstate[d] = alone.state[d]
            /\ acc[d] = alone.acc[d]
            /\ \A e \in DirectoryIds \ {d} : alone.acc[e] = <<>>

\* the batches of two scans with distinct ids arrived interleaved, and each id
\* holds its own two batches
C15_Witness ==
    \E d, e \in DirectoryIds : \E i, j, k \in Indices :
        /\ d # e
        /\ i < j /\ j < k
        /\ IsBatch(dispatched[i]) /\ dispatched[i].directoryId = d
        /\ IsBatch(dispatched[j]) /\ dispatched[j].directoryId = e
        /\ IsBatch(dispatched[k]) /\ dispatched[k].directoryId = d
        /\ Entries(acc[d]) = FileNames(FirstName1, 2 * BatchLen)
        /\ Entries(acc[e]) = FileNames(FirstName1, 2 * BatchLen)

\* C16: a call of streamDirectoryFiles returns before any batch or terminal event of
\* it is delivered, and no event for an id is observed before a request for that id
\* was accepted: the step of the call delivers nothing, and every event dispatched
\* comes from a call that had returned, with that call's directoryId.
C16_ReturnsBeforeEvents ==
    [][ /\ Len(scans') > Len(scans) => (dispatched' = dispatched /\ received' = received)
        /\ DispatchStep =>
              /\ DispatchedNow.scan \in 1..Len(scans)
              /\ scans[DispatchedNow.scan].directoryId = DispatchedNow.directoryId
      ]_vars

\* two requests with distinct ids were made, and an event of the second was
\* delivered after an event of the first
C16_Witness ==
    /\ Len(scans) >= 2
    /\ \E i, j \in Indices :
           /\ i < j
           /\ dispatched[i].scan = 1
           /\ dispatched[j].scan = 2
           /\ scans[1].directoryId # scans[2].directoryId

\* handles g and h are two subscriptions of the same callback to the same event
SameCallback(g, h) ==
    /\ g # h
    /\ subs[g].returnsUnsub /\ subs[h].returnsUnsub
    /\ subs[g].type = subs[h].type
    /\ subs[g].callback = subs[h].callback

\* C17: subscriptions are removed by handle, not by callback identity: two
\* subscriptions of the same callback are separate registrations, each invoked with
\* an event, and a call of the unsubscribe returned for one of them removes that one
\* and leaves the other registered and receiving.
C17_RemovedByHandle ==
    [][\A g, h \in DOMAIN subs :
          SameCallback(g, h) =>
              /\ (subs[g].unsubCalls = 0 /\ subs[h].unsubCalls = 0) =>
                     /\ Registered(g) /\ Registered(h)
                     /\ (DispatchStep /\ DispatchedNow.type = subs[g].type)
                            => (InvokedNow(g) /\ InvokedNow(h))
              /\ (subs'[h].unsubCalls > subs[h].unsubCalls /\ subs[g].unsubCalls = 0) =>
                     /\ ~InListeners(listeners', subs[h].type, h)
                     /\ InListeners(listeners', subs[g].type, g)
              /\ ( /\ subs[h].unsubCalls >= 1 /\ subs[g].unsubCalls = 0
                   /\ DispatchStep /\ DispatchedNow.type = subs[g].type )
                 => (InvokedNow(g) /\ received'[h] = received[h])
      ]_vars

\* the application's callback was subscribed to batches a second time, both
\* subscriptions received a batch, the second was unsubscribed, and the first
\* received the next batch alone
C17_Witness ==
    \E g, h \in DOMAIN subs :
        /\ SameCallback(g, h)
        /\ subs[h].unsubCalls >= 1
        /\ subs[g].unsubCalls = 0
        /\ received[h] # <<>>
        /\ Len(received[g]) > Len(received[h])
        /\ \E k \in 1..Len(received[g]) : received[g][k] = received[h][Len(received[h])]
        /\ received[g][Len(received[g])] > received[h][Len(received[h])]

\* the s-th call of streamDirectoryFiles is active: accepted, and its terminal event
\* not yet delivered
Active(s) == s \in 1..Len(scans) /\ ~TerminalDelivered(s)

\* C18: at every moment no two active scans share a directoryId: a request made
\* while an id is active does not give a second concurrent event stream with that id.
C18_ActiveIdsUnique ==
    \A s, t \in 1..Len(scans) :
        (s # t /\ Active(s) /\ Active(t)) => scans[s].directoryId # scans[t].directoryId

C20_FailureHandledBrowserClosedOnce ==
    /\ run.pc = "returned" => (run.closes = 1 /\ ~run.open)
    /\ (run.failedAt # 0 /\ run.pc \in {"returned", "raised"}) =>
           /\ run.step = run.failedAt
           /\ ErrorShot(run.script) \in run.shots
           /\ run.closes = 1
           /\ ~run.open
           /\ run.pc = "returned"

====
